---- MODULE Spec2Model ----
(***************************************************************************)
(* AEAD-2022 UDP cipher facade (src/v2/udp/mod.rs): CipherVariant, the     *)
(* closed dispatcher over the concrete AEAD primitives, and UdpCipher, the *)
(* facade callers hold.                                                    *)
(*                                                                         *)
(* The three primitive modules (aes_gcm, chacha20_poly1305,                *)
(* chacha8_poly1305) are declared by mod.rs but their bodies are not part  *)
(* of the sources at hand; they are modelled from the collaborator         *)
(* contract of the specification (sections 4.3 and 6) as an ideal AEAD:    *)
(* the keyed hash and the authenticator are collision free, the keystream  *)
(* is a fixed function of the per-packet sub-key.                          *)
(*                                                                         *)
(* Byte strings that are opaque to the facade (keys, salts) are records    *)
(* or numbers naming their value; packet buffers are sequences of bytes.   *)
(***************************************************************************)
EXTENDS Integers, Sequences, FiniteSets, TLC

VARIABLES
    v2_extra,   \* build configuration: cargo feature "v2-extra"
    state,      \* "unbuilt", "built" or "panicked" (UdpCipher::new aborted)
    self,       \* the UdpCipher value, NoCipher while none exists
    panic,      \* the panic raised by construction, NoPanic if none
    args,       \* the arguments UdpCipher::new was called with
    arm0,       \* the CipherVariant arm selected at construction
    phase,      \* the caller's packet: "idle", "plain", "sealed", "tampered", "opened"
    prev,       \* phase the packet was in when the last packet call was made
    lastop,     \* last packet call: "none", "encrypt", "decrypt"
    plain,      \* the plaintext the caller put in the packet
    salt,       \* the packet's salt (cleartext header)
    inbuf,      \* buffer contents handed to the last packet call
    buf,        \* the caller's packet buffer, mutated in place
    ret,        \* return value of the last packet call
    failed,     \* some decrypt_packet on this cipher has returned false
    kindSeen,   \* last value returned by kind()
    catSeen,    \* last value returned by category()
    tpc,        \* per thread: "idle", "called", "matched", "done"
    top,        \* per thread: "encrypt" or "decrypt"
    tsalt,      \* per thread: salt argument
    tin,        \* per thread: buffer contents at the call
    tbuf,       \* per thread: the thread's own buffer
    tret,       \* per thread: return value
    tprim       \* per thread: the variant arm bound by the match on *self

seqvars == <<phase, prev, lastop, plain, salt, inbuf, buf, ret, failed, kindSeen, catSeen>>
thrvars == <<tpc, top, tsalt, tin, tbuf, tret, tprim>>
objvars == <<v2_extra, state, self, panic, args, arm0>>
vars == <<v2_extra, state, self, panic, args, arm0,
          phase, prev, lastop, plain, salt, inbuf, buf, ret, failed, kindSeen, catSeen,
          tpc, top, tsalt, tin, tbuf, tret, tprim>>

----------------------------------------------------------------------------
(* Bounds of the model *)

MaxKeyVal == 0       \* key material takes the values 0..MaxKeyVal
MaxSessionId == 1    \* session identifiers 0..MaxSessionId
MaxSaltVal == 1      \* salts 0..MaxSaltVal
MaxLen == 1          \* plaintext length 0..MaxLen
NumThreads == 2      \* threads sharing one cipher

----------------------------------------------------------------------------
(* Data *)

AES128 == "AEAD2022_BLAKE3_AES_128_GCM"
AES256 == "AEAD2022_BLAKE3_AES_256_GCM"
CHACHA20 == "AEAD2022_BLAKE3_CHACHA20_POLY1305"
CHACHA8 == "AEAD2022_BLAKE3_CHACHA8_POLY1305"

\* kinds of the crate that are not AEAD-2022 kinds
OtherKinds == {"NONE", "AES_128_GCM"}

CipherKind == {AES128, AES256, CHACHA20, CHACHA8} \cup OtherKinds

TagLen == 16
ByteMod == 256

KeyLens == {16, 24, 32}
Keys == [len : KeyLens, val : 0..MaxKeyVal]
SessionIds == 0..MaxSessionId
Salts == 0..MaxSaltVal
Threads == 1..NumThreads

RECURSIVE SeqsUpTo(_, _)
SeqsUpTo(S, n) ==
    IF n = 0 THEN {<<>>}
    ELSE LET R == SeqsUpTo(S, n - 1) IN
         R \cup {Append(s, x) : s \in {r \in R : Len(r) = n - 1}, x \in S}

\* the byte values plaintexts are made of
PlainBytes == {0, 165}

Plaintexts == SeqsUpTo(PlainBytes, MaxLen)

Zeros(n) == [i \in 1..n |-> 0]

NoCipher == [none |-> TRUE]
NoPanic == <<>>
NoArgs == [none |-> TRUE]

Ok(v) == [ok |-> TRUE, val |-> v, panic |-> NoPanic]
Panic(p) == [ok |-> FALSE, val |-> NoCipher, panic |-> p]

RECURSIVE Xor(_, _)
Xor(a, b) ==
    IF a = 0 THEN b
    ELSE IF b = 0 THEN a
    ELSE ((a + b) % 2) + 2 * Xor(a \div 2, b \div 2)

Pow2(k) == CASE k = 0 -> 1 [] k = 1 -> 2 [] k = 2 -> 4 [] k = 3 -> 8
             [] k = 4 -> 16 [] k = 5 -> 32 [] k = 6 -> 64 [] k = 7 -> 128

\* the buffer with bit k (0 .. 8*Len-1) inverted
FlipBit(b, k) ==
    [b EXCEPT ![(k \div 8) + 1] = Xor(@, Pow2(k % 8))]

Bits(b) == 0..(8 * Len(b) - 1)

----------------------------------------------------------------------------
(* The AEAD primitives, from the collaborator contract (spec 4.3, 6)       *)

\* required master-key length of each AEAD-2022 kind (spec 6)
KeySize(kind) == IF kind = AES128 THEN 16 ELSE 32

AlgCode(alg) ==
    CASE alg = AES128 -> 1 [] alg = AES256 -> 2 [] alg = CHACHA20 -> 3 [] alg = CHACHA8 -> 4

\* aes_gcm::Cipher::new: keeps the key and the session identifier
AesGcmCipher_new(kind, key, session_id) ==
    IF key.len # KeySize(kind)
    THEN Panic(<<"key length", kind, key.len>>)
    ELSE Ok([alg |-> kind, key |-> key, session_id |-> session_id])

\* chacha20_poly1305::Cipher::new: keeps the key only
ChaCha20Poly1305Cipher_new(key) ==
    IF key.len # KeySize(CHACHA20)
    THEN Panic(<<"key length", CHACHA20, key.len>>)
    ELSE Ok([alg |-> CHACHA20, key |-> key])

\* chacha8_poly1305::Cipher::new: keeps the key only
ChaCha8Poly1305Cipher_new(key) ==
    IF key.len # KeySize(CHACHA8)
    THEN Panic(<<"key length", CHACHA8, key.len>>)
    ELSE Ok([alg |-> CHACHA8, key |-> key])

\* Per-packet sub-key: keyed hash of the salt; the GCM primitives also mix
\* the session identifier in, the stream-cipher primitives do not (spec 4.3).
\* The hash is ideal: the sub-key is the tuple of what was hashed.
AesGcm_SubKey(c, s) == <<AlgCode(c.alg), c.key.len, c.key.val, s, 1, c.session_id>>
ChaCha_SubKey(c, s) == <<AlgCode(c.alg), c.key.len, c.key.val, s, 0, 0>>

\* keystream byte i of the AEAD run under sub-key sk with the fixed nonce
KeyStream(sk, i) ==
    (sk[1] * 29 + sk[2] * 3 + sk[3] * 53 + sk[4] * 71 + sk[5] * 5 + sk[6] * 113
       + i * 101 + 11) % ByteMod

Crypt(sk, text) == [i \in 1..Len(text) |-> Xor(text[i], KeyStream(sk, i))]

\* 16-byte authenticator of ciphertext ct under sub-key sk: ideal, i.e.
\* one-to-one in (sk, ct) for the packets of the model
Tag(sk, ct) ==
    LET body == <<sk[1], sk[2], sk[3] % ByteMod, sk[4] % ByteMod, sk[5],
                  sk[6] % ByteMod, Len(ct)>> \o ct
    IN  [j \in 1..TagLen |-> IF j <= Len(body) THEN body[j] ELSE 0]

\* seal(nonce, buffer): encrypt the plaintext prefix in place, write the tag
\* into the reserved tail
Seal(sk, b) ==
    LET n == Len(b) - TagLen
        ct == Crypt(sk, SubSeq(b, 1, n))
    IN  ct \o Tag(sk, ct)

\* open(nonce, buffer): the possible outcomes of verify-and-decrypt in place.
\* On a tag mismatch the result is false and the buffer contents are
\* undefined: left as they were, or already decrypted in place.
Open(sk, b) ==
    LET n == Len(b) - TagLen
        ct == SubSeq(b, 1, n)
        tag == SubSeq(b, n + 1, Len(b))
        pt == Crypt(sk, ct)
    IN  IF tag = Tag(sk, ct)
        THEN {[ret |-> TRUE, buf |-> pt \o tag]}
        ELSE {[ret |-> FALSE, buf |-> x] : x \in {b, pt \o tag}}

AesGcm_encrypt_packet(c, s, b) == Seal(AesGcm_SubKey(c, s), b)
AesGcm_decrypt_packet(c, s, b) == Open(AesGcm_SubKey(c, s), b)
ChaCha20Poly1305_encrypt_packet(c, s, b) == Seal(ChaCha_SubKey(c, s), b)
ChaCha20Poly1305_decrypt_packet(c, s, b) == Open(ChaCha_SubKey(c, s), b)
ChaCha8Poly1305_encrypt_packet(c, s, b) == Seal(ChaCha_SubKey(c, s), b)
ChaCha8Poly1305_decrypt_packet(c, s, b) == Open(ChaCha_SubKey(c, s), b)

----------------------------------------------------------------------------
(* CipherVariant: mod.rs 14-55 *)

\* CipherVariant::new with a default arm that builds a cipher instead of
\* panicking
CipherVariant_new_DefaultArm(kind, key, session_id) ==
    IF kind \in {AES128, AES256} THEN
        LET r == AesGcmCipher_new(kind, key, session_id) IN
        IF r.ok THEN Ok([arm |-> "AesGcm", c |-> r.val]) ELSE r
    ELSE IF v2_extra /\ kind = CHACHA8 THEN
        LET r == ChaCha8Poly1305Cipher_new(key) IN
        IF r.ok THEN Ok([arm |-> "ChaCha8Poly1305", c |-> r.val]) ELSE r
    ELSE
        LET r == ChaCha20Poly1305Cipher_new(key) IN
        IF r.ok THEN Ok([arm |-> "ChaCha20Poly1305", c |-> r.val]) ELSE r

\* CipherVariant::new that does not hand the session identifier to the AES
\* primitive
CipherVariant_new_NoSession(kind, key, session_id) ==
    IF kind \in {AES128, AES256} THEN
        LET r == AesGcmCipher_new(kind, key, 0) IN
        IF r.ok THEN Ok([arm |-> "AesGcm", c |-> r.val]) ELSE r
    ELSE IF kind = CHACHA20 THEN
        LET r == ChaCha20Poly1305Cipher_new(key) IN
        IF r.ok THEN Ok([arm |-> "ChaCha20Poly1305", c |-> r.val]) ELSE r
    ELSE IF v2_extra /\ kind = CHACHA8 THEN
        LET r == ChaCha8Poly1305Cipher_new(key) IN
        IF r.ok THEN Ok([arm |-> "ChaCha8Poly1305", c |-> r.val]) ELSE r
    ELSE Panic(<<"unreachable", "Cipher", kind, "is not an AEAD 2022 cipher">>)

\* CipherVariant::new with an arm of its own for the compiled-out ChaCha8 kind
CipherVariant_new_DisabledArm(kind, key, session_id) ==
    IF kind \in {AES128, AES256} THEN
        LET r == AesGcmCipher_new(kind, key, session_id) IN
        IF r.ok THEN Ok([arm |-> "AesGcm", c |-> r.val]) ELSE r
    ELSE IF kind = CHACHA20 THEN
        LET r == ChaCha20Poly1305Cipher_new(key) IN
        IF r.ok THEN Ok([arm |-> "ChaCha20Poly1305", c |-> r.val]) ELSE r
    ELSE IF kind = CHACHA8 THEN
        IF v2_extra
        THEN LET r == ChaCha8Poly1305Cipher_new(key) IN
             IF r.ok THEN Ok([arm |-> "ChaCha8Poly1305", c |-> r.val]) ELSE r
        ELSE Panic(<<"panic", "Cipher", kind, "requires feature v2-extra">>)
    ELSE Panic(<<"unreachable", "Cipher", kind, "is not an AEAD 2022 cipher">>)

\* CipherVariant::new whose ChaCha20 arm was pasted from the ChaCha8 arm
CipherVariant_new_WrongArm(kind, key, session_id) ==
    IF kind \in {AES128, AES256} THEN
        LET r == AesGcmCipher_new(kind, key, session_id) IN
        IF r.ok THEN Ok([arm |-> "AesGcm", c |-> r.val]) ELSE r
    ELSE IF kind = CHACHA20 THEN
        LET r == ChaCha8Poly1305Cipher_new(key) IN
        IF r.ok THEN Ok([arm |-> "ChaCha8Poly1305", c |-> r.val]) ELSE r
    ELSE IF v2_extra /\ kind = CHACHA8 THEN
        LET r == ChaCha8Poly1305Cipher_new(key) IN
        IF r.ok THEN Ok([arm |-> "ChaCha8Poly1305", c |-> r.val]) ELSE r
    ELSE Panic(<<"unreachable", "Cipher", kind, "is not an AEAD 2022 cipher">>)

\* CipherVariant::new; the ChaCha8 arm exists only under feature v2-extra
CipherVariant_new(kind, key, session_id) ==
    IF kind \in {AES128, AES256} THEN
        LET r == AesGcmCipher_new(kind, key, session_id) IN
        IF r.ok THEN Ok([arm |-> "AesGcm", c |-> r.val]) ELSE r
    ELSE IF kind = CHACHA20 THEN
        LET r == ChaCha20Poly1305Cipher_new(key) IN
        IF r.ok THEN Ok([arm |-> "ChaCha20Poly1305", c |-> r.val]) ELSE r
    ELSE IF v2_extra /\ kind = CHACHA8 THEN
        LET r == ChaCha8Poly1305Cipher_new(key) IN
        IF r.ok THEN Ok([arm |-> "ChaCha8Poly1305", c |-> r.val]) ELSE r
    ELSE Panic(<<"unreachable", "Cipher", kind, "is not an AEAD 2022 cipher">>)

\* CipherVariant::encrypt_packet: the buffer after the call
CipherVariant_encrypt_packet(v, s, b) ==
    CASE v.arm = "AesGcm" -> AesGcm_encrypt_packet(v.c, s, b)
      [] v.arm = "ChaCha20Poly1305" -> ChaCha20Poly1305_encrypt_packet(v.c, s, b)
      [] v.arm = "ChaCha8Poly1305" -> ChaCha8Poly1305_encrypt_packet(v.c, s, b)

\* CipherVariant::decrypt_packet that drops the primitive's verdict
CipherVariant_decrypt_packet_AlwaysTrue(v, s, b) ==
    LET outs == CASE v.arm = "AesGcm" -> AesGcm_decrypt_packet(v.c, s, b)
                  [] v.arm = "ChaCha20Poly1305" -> ChaCha20Poly1305_decrypt_packet(v.c, s, b)
                  [] v.arm = "ChaCha8Poly1305" -> ChaCha8Poly1305_decrypt_packet(v.c, s, b)
    IN  {[ret |-> TRUE, buf |-> o.buf] : o \in outs}

\* CipherVariant::decrypt_packet: the possible (return value, buffer) pairs
CipherVariant_decrypt_packet(v, s, b) ==
    CASE v.arm = "AesGcm" -> AesGcm_decrypt_packet(v.c, s, b)
      [] v.arm = "ChaCha20Poly1305" -> ChaCha20Poly1305_decrypt_packet(v.c, s, b)
      [] v.arm = "ChaCha8Poly1305" -> ChaCha8Poly1305_decrypt_packet(v.c, s, b)

----------------------------------------------------------------------------
(* UdpCipher: mod.rs 58-93 *)

UdpCipher_new(kind, key, session_id) ==
    LET r == CipherVariant_new(kind, key, session_id) IN
    IF r.ok THEN Ok([cipher |-> r.val, kind |-> kind]) ELSE r

\* kind() recomputed from the variant instead of read from the field
UdpCipher_kind_FromVariant(u) ==
    CASE u.cipher.arm = "AesGcm" -> AES128
      [] u.cipher.arm = "ChaCha20Poly1305" -> CHACHA20
      [] u.cipher.arm = "ChaCha8Poly1305" -> CHACHA8

UdpCipher_kind(u) == u.kind

UdpCipher_category(u) == "Aead2022"

\* encrypt_packet that does not forward the caller's salt
UdpCipher_encrypt_packet_FixedSalt(u, s, b) ==
    [self |-> u, ret |-> "unit", buf |-> CipherVariant_encrypt_packet(u.cipher, 0, b)]

\* encrypt_packet that keeps per-call state in the cipher (the salt it saw)
UdpCipher_encrypt_packet_Stateful(u, s, b) ==
    [self |-> [u EXCEPT !.cipher.c.key.val = s + 1],
     ret |-> "unit",
     buf |-> CipherVariant_encrypt_packet(u.cipher, s, b)]

\* UdpCipher::encrypt_packet(&self, ..): the cipher and the buffer after the call
UdpCipher_encrypt_packet(u, s, b) ==
    [self |-> u, ret |-> "unit", buf |-> CipherVariant_encrypt_packet(u.cipher, s, b)]

\* decrypt_packet that does not forward the caller's salt
UdpCipher_decrypt_packet_FixedSalt(u, s, b) ==
    {[self |-> u, ret |-> o.ret, buf |-> o.buf] :
        o \in CipherVariant_decrypt_packet(u.cipher, 0, b)}

\* decrypt_packet that leaves the cipher changed after a failed packet
UdpCipher_decrypt_packet_Poisoned(u, s, b) ==
    {[self |-> IF o.ret THEN u ELSE [u EXCEPT !.cipher.c.key.val = @ + 1],
      ret |-> o.ret, buf |-> o.buf] :
        o \in CipherVariant_decrypt_packet(u.cipher, s, b)}

\* UdpCipher::decrypt_packet(&self, ..): the possible outcomes
UdpCipher_decrypt_packet(u, s, b) ==
    {[self |-> u, ret |-> o.ret, buf |-> o.buf] :
        o \in CipherVariant_decrypt_packet(u.cipher, s, b)}

----------------------------------------------------------------------------
(* One caller: construction, then packets through the facade *)

ThreadsIdle ==
    /\ tpc = [t \in Threads |-> "idle"]
    /\ top = [t \in Threads |-> "none"]
    /\ tsalt = [t \in Threads |-> 0]
    /\ tin = [t \in Threads |-> <<>>]
    /\ tbuf = [t \in Threads |-> <<>>]
    /\ tret = [t \in Threads |-> "none"]
    /\ tprim = [t \in Threads |-> NoCipher]

CallerIdle ==
    /\ phase = "idle"
    /\ prev = "idle"
    /\ lastop = "none"
    /\ plain = <<>>
    /\ salt = 0
    /\ inbuf = <<>>
    /\ buf = <<>>
    /\ ret = "none"
    /\ failed = FALSE
    /\ kindSeen = "none"
    /\ catSeen = "none"

Init ==
    /\ v2_extra \in BOOLEAN
    /\ state = "unbuilt"
    /\ self = NoCipher
    /\ panic = NoPanic
    /\ args = NoArgs
    /\ arm0 = "none"
    /\ CallerIdle
    /\ ThreadsIdle

\* let cipher = UdpCipher::new(kind, key, session_id);
New(kind, key, session_id) ==
    /\ state = "unbuilt"
    /\ LET r == UdpCipher_new(kind, key, session_id) IN
       /\ state' = IF r.ok THEN "built" ELSE "panicked"
       /\ self' = r.val
       /\ panic' = r.panic
       /\ arm0' = IF r.ok THEN r.val.cipher.arm ELSE "none"
    /\ args' = [kind |-> kind, key |-> key, session_id |-> session_id]
    /\ UNCHANGED <<v2_extra, seqvars, thrvars>>

\* let k = cipher.kind(); between packet calls
Kind ==
    /\ state = "built"
    /\ phase \in {"idle", "plain"}
    /\ kindSeen' = UdpCipher_kind(self)
    /\ UNCHANGED <<objvars, phase, prev, lastop, plain, salt, inbuf, buf, ret, failed,
                   catSeen, thrvars>>

\* let c = cipher.category(); between packet calls
Category ==
    /\ state = "built"
    /\ phase \in {"idle", "plain"}
    /\ catSeen' = UdpCipher_category(self)
    /\ UNCHANGED <<objvars, phase, prev, lastop, plain, salt, inbuf, buf, ret, failed,
                   kindSeen, thrvars>>

\* the caller lays out the next packet: plaintext, tag space reserved, the
\* packet's salt
Prepare(pt, s) ==
    /\ state = "built"
    /\ phase = "idle"
    /\ phase' = "plain"
    /\ plain' = pt
    /\ salt' = s
    /\ buf' = pt \o Zeros(TagLen)
    /\ UNCHANGED <<objvars, prev, lastop, inbuf, ret, failed, kindSeen, catSeen, thrvars>>

\* the caller is done with the packet (delivered or discarded): its locals
\* go out of scope, the cipher is kept for the next packet
Drop ==
    /\ state = "built"
    /\ phase # "idle"
    /\ phase' = "idle"
    /\ plain' = <<>>
    /\ salt' = 0
    /\ buf' = <<>>
    /\ prev' = "idle"
    /\ lastop' = "none"
    /\ inbuf' = <<>>
    /\ ret' = "none"
    /\ kindSeen' = "none"
    /\ catSeen' = "none"
    /\ UNCHANGED <<objvars, failed, thrvars>>

\* cipher.encrypt_packet(salt, &mut buf)
Encrypt ==
    /\ state = "built"
    /\ phase = "plain"
    /\ LET r == UdpCipher_encrypt_packet(self, salt, buf) IN
       /\ self' = r.self
       /\ buf' = r.buf
       /\ ret' = r.ret
    /\ inbuf' = buf
    /\ prev' = phase
    /\ phase' = "sealed"
    /\ lastop' = "encrypt"
    /\ kindSeen' = "none"
    /\ catSeen' = "none"
    /\ UNCHANGED <<v2_extra, state, panic, args, arm0, plain, salt, failed, thrvars>>

\* the network flips one bit of the ciphertext-plus-tag
Tamper(k) ==
    /\ state = "built"
    /\ phase = "sealed"
    /\ k \in Bits(buf)
    /\ buf' = FlipBit(buf, k)
    /\ phase' = "tampered"
    /\ UNCHANGED <<objvars, prev, lastop, plain, salt, inbuf, ret, failed, kindSeen,
                   catSeen, thrvars>>

\* let ok = cipher.decrypt_packet(salt, &mut buf);
Decrypt ==
    /\ state = "built"
    /\ phase \in {"plain", "sealed", "tampered"}
    /\ \E r \in UdpCipher_decrypt_packet(self, salt, buf) :
          /\ self' = r.self
          /\ buf' = r.buf
          /\ ret' = r.ret
          /\ failed' = (failed \/ ~r.ret)
    /\ inbuf' = buf
    /\ prev' = phase
    /\ phase' = "opened"
    /\ lastop' = "decrypt"
    /\ kindSeen' = "none"
    /\ catSeen' = "none"
    /\ UNCHANGED <<v2_extra, state, panic, args, arm0, plain, salt, thrvars>>

Next ==
    \/ \E kind \in CipherKind, key \in Keys, sid \in SessionIds : New(kind, key, sid)
    \/ Kind
    \/ Category
    \/ \E pt \in Plaintexts, s \in Salts : Prepare(pt, s)
    \/ Drop
    \/ Encrypt
    \/ \E k \in 0..(8 * (MaxLen + TagLen) - 1) : Tamper(k)
    \/ Decrypt

Spec == Init /\ [][Next]_vars

----------------------------------------------------------------------------
(* Several threads sharing one cipher (&UdpCipher), each on its own buffer *)

\* the cipher a peer holding the same (kind, key, session_id) constructs
Fresh == UdpCipher_new(args.kind, args.key, args.session_id).val

\* thread t's payload
ThreadPlain(t) == <<t % ByteMod>>

\* the buffers thread t may hand to the cipher: for encrypt_packet its payload
\* with the tag space reserved; for decrypt_packet a packet its peer sealed
\* under salt s, or an unauthenticated one
ThreadInputs(t, op, s) ==
    IF op = "encrypt"
    THEN {ThreadPlain(t) \o Zeros(TagLen)}
    ELSE {UdpCipher_encrypt_packet(Fresh, s, ThreadPlain(t) \o Zeros(TagLen)).buf,
          ThreadPlain(t) \o Zeros(TagLen)}

\* the association modelled with threads: key value 0, session 0
InitConc ==
    /\ v2_extra \in BOOLEAN
    /\ \E kind \in CipherKind, len \in KeyLens :
          LET key == [len |-> len, val |-> 0]
              r == UdpCipher_new(kind, key, 0)
          IN  /\ r.ok
              /\ state = "built"
              /\ self = r.val
              /\ panic = NoPanic
              /\ args = [kind |-> kind, key |-> key, session_id |-> 0]
              /\ arm0 = r.val.cipher.arm
    /\ CallerIdle
    /\ ThreadsIdle

\* thread t calls cipher.encrypt_packet / cipher.decrypt_packet
T_Call(t, op, s) ==
    /\ tpc[t] = "idle"
    /\ \E b \in ThreadInputs(t, op, s) :
          /\ tin' = [tin EXCEPT ![t] = b]
          /\ tbuf' = [tbuf EXCEPT ![t] = b]
    /\ top' = [top EXCEPT ![t] = op]
    /\ tsalt' = [tsalt EXCEPT ![t] = s]
    /\ tpc' = [tpc EXCEPT ![t] = "called"]
    /\ UNCHANGED <<objvars, seqvars, tret, tprim>>

\* the call reads the shared cipher through &self
T_Enter(t) ==
    /\ tpc[t] = "called"
    /\ tprim' = [tprim EXCEPT ![t] = self]
    /\ tpc' = [tpc EXCEPT ![t] = "matched"]
    /\ UNCHANGED <<objvars, seqvars, top, tsalt, tin, tbuf, tret>>

\* the selected arm runs on the thread's buffer
T_Run(t) ==
    /\ tpc[t] = "matched"
    /\ \E r \in IF top[t] = "encrypt"
                THEN {UdpCipher_encrypt_packet(tprim[t], tsalt[t], tbuf[t])}
                ELSE UdpCipher_decrypt_packet(tprim[t], tsalt[t], tbuf[t]) :
          /\ self' = r.self
          /\ tbuf' = [tbuf EXCEPT ![t] = r.buf]
          /\ tret' = [tret EXCEPT ![t] = r.ret]
    /\ tpc' = [tpc EXCEPT ![t] = "done"]
    /\ UNCHANGED <<v2_extra, state, panic, args, arm0, seqvars, top, tsalt, tin, tprim>>

\* the thread is done with its buffer
T_Return(t) ==
    /\ tpc[t] = "done"
    /\ tpc' = [tpc EXCEPT ![t] = "idle"]
    /\ top' = [top EXCEPT ![t] = "none"]
    /\ tsalt' = [tsalt EXCEPT ![t] = 0]
    /\ tin' = [tin EXCEPT ![t] = <<>>]
    /\ tbuf' = [tbuf EXCEPT ![t] = <<>>]
    /\ tret' = [tret EXCEPT ![t] = "none"]
    /\ tprim' = [tprim EXCEPT ![t] = NoCipher]
    /\ UNCHANGED <<objvars, seqvars>>

NextConc ==
    \/ \E t \in Threads, op \in {"encrypt", "decrypt"}, s \in Salts : T_Call(t, op, s)
    \/ \E t \in Threads : T_Enter(t)
    \/ \E t \in Threads : T_Run(t)
    \/ \E t \in Threads : T_Return(t)

SpecConc == InitConc /\ [][NextConc]_vars

----------------------------------------------------------------------------
(* Properties *)

Built == state = "built"

GcmKinds == {AES128, AES256}
StreamKinds == {CHACHA20, CHACHA8}

\* the AEAD-2022 UDP algorithms this build recognizes
Recognized(kind) ==
    \/ kind \in GcmKinds
    \/ kind = CHACHA20
    \/ v2_extra /\ kind = CHACHA8

RequiredKeyLen(kind) == IF kind = AES128 THEN 16 ELSE 32

ValidArgs == Recognized(args.kind) /\ args.key.len = RequiredKeyLen(args.kind)

\* the panic of the catch-all arm
NotAead2022(kind) == <<"unreachable", "Cipher", kind, "is not an AEAD 2022 cipher">>

PlainPrefix(b) == SubSeq(b, 1, Len(b) - TagLen)

\* C1: decrypt_packet on the buffer encrypt_packet produced, same cipher and
\* salt, returns true and leaves the original plaintext in the buffer's
\* plaintext prefix.
C1_RoundTrip ==
    (Built /\ phase = "opened" /\ prev = "sealed") =>
        /\ ret = TRUE
        /\ PlainPrefix(buf) = plain

C1_Witness ==
    /\ Built /\ phase = "opened" /\ prev = "sealed" /\ ret = TRUE
    /\ plain # <<>>
    /\ PlainPrefix(inbuf) # plain
    /\ salt # 0

\* C2: UdpCipher::new with a kind that is not a recognized AEAD-2022 kind, or
\* with a key of the wrong length, panics during construction: no UdpCipher
\* exists and no packet operation is ever executed.
C2_ConstructionFailure ==
    (state # "unbuilt" /\ ~ValidArgs) =>
        /\ state = "panicked"
        /\ panic # NoPanic
        /\ self = NoCipher
        /\ lastop = "none" /\ phase = "idle" /\ buf = <<>>
        /\ kindSeen = "none" /\ catSeen = "none"

C2_Witness ==
    /\ state = "panicked"
    /\ args.kind = AES256
    /\ args.key.len = 16

\* C3: with the same key, salt and plaintext, two GCM ciphers with distinct
\* session identifiers give distinct ciphertexts; two stream-cipher ciphers
\* with any session identifiers give the same encrypt_packet output and the
\* same decrypt_packet result.
C3_SessionAsymmetry ==
    Built =>
        /\ (args.kind \in GcmKinds /\ phase = "sealed") =>
              \A sid \in SessionIds \ {args.session_id} :
                 UdpCipher_encrypt_packet(
                    UdpCipher_new(args.kind, args.key, sid).val, salt, inbuf).buf # buf
        /\ (args.kind \in StreamKinds /\ phase = "sealed") =>
              \A sid \in SessionIds :
                 UdpCipher_encrypt_packet(
                    UdpCipher_new(args.kind, args.key, sid).val, salt, inbuf).buf = buf
        /\ (args.kind \in StreamKinds /\ phase = "opened") =>
              \A sid \in SessionIds :
                 [ret |-> ret, buf |-> buf] \in
                    {[ret |-> o.ret, buf |-> o.buf] :
                       o \in UdpCipher_decrypt_packet(
                          UdpCipher_new(args.kind, args.key, sid).val, salt, inbuf)}

C3_Witness ==
    /\ Built /\ args.kind = AES128 /\ phase = "sealed"
    /\ plain # <<>>

\* C4: decrypt_packet on a sealed buffer with one bit flipped returns false,
\* as a plain boolean.
C4_TamperSensitivity ==
    (Built /\ phase = "opened" /\ prev = "tampered") => ret = FALSE

C4_Witness ==
    /\ Built /\ phase = "opened" /\ prev = "tampered" /\ ret = FALSE
    /\ buf # inbuf

\* C5: after any sequence of packet calls, failed decryptions included, the
\* cipher is the one that was constructed and the last call's result is the
\* result a freshly constructed cipher gives for the same salt and buffer.
C5_HistoryIndependence ==
    Built =>
        /\ self = Fresh
        /\ phase = "sealed" =>
              /\ buf = UdpCipher_encrypt_packet(Fresh, salt, inbuf).buf
              /\ ret = "unit"
        /\ phase = "opened" =>
              [self |-> Fresh, ret |-> ret, buf |-> buf]
                 \in UdpCipher_decrypt_packet(Fresh, salt, inbuf)

C5_Witness ==
    /\ Built /\ failed /\ phase = "sealed"

\* C6: without feature v2-extra, UdpCipher::new with the ChaCha8-Poly1305 kind
\* panics in the catch-all arm, like a kind that is no AEAD-2022 kind; with
\* the feature it builds the ChaCha8Poly1305 variant.
C6_DisabledAlgorithm ==
    state # "unbuilt" =>
        /\ (args.kind \in OtherKinds \/ (args.kind = CHACHA8 /\ ~v2_extra)) =>
              /\ state = "panicked"
              /\ panic = NotAead2022(args.kind)
        /\ (args.kind = CHACHA8 /\ v2_extra /\ args.key.len = RequiredKeyLen(CHACHA8)) =>
              /\ state = "built"
              /\ self.cipher.arm = "ChaCha8Poly1305"

C6_Witness ==
    /\ ~v2_extra /\ state = "panicked"
    /\ args.kind = CHACHA8 /\ args.key.len = 32

\* C7: calls of several threads on one shared cipher, each on its own buffer,
\* end with the buffer and return value of the same call run alone, and the
\* cipher is never changed.
C7_ConcurrentUse ==
    /\ self = Fresh
    /\ \A t \in Threads :
          tpc[t] = "done" =>
             IF top[t] = "encrypt"
             THEN /\ tbuf[t] = UdpCipher_encrypt_packet(Fresh, tsalt[t], tin[t]).buf
                  /\ tret[t] = "unit"
             ELSE [self |-> Fresh, ret |-> tret[t], buf |-> tbuf[t]]
                     \in UdpCipher_decrypt_packet(Fresh, tsalt[t], tin[t])

C7_Witness ==
    \E t, u \in Threads :
        /\ t # u
        /\ tpc[t] = "done" /\ top[t] = "decrypt" /\ tret[t] = TRUE
        /\ tpc[u] = "matched" /\ top[u] = "encrypt"

\* C8: kind() returns the kind passed to new and the variant arm is the one
\* chosen at construction, whatever calls were made.
C8_KindConstant ==
    Built =>
        /\ UdpCipher_kind(self) = args.kind
        /\ self.cipher.arm = arm0
        /\ kindSeen \in {"none", args.kind}

C8_Witness ==
    /\ Built /\ failed /\ kindSeen = AES256

\* C9: encrypt_packet of the same plaintext buffer under two distinct salts
\* gives two distinct ciphertext-plus-tag buffers.
C9_SaltSensitivity ==
    (Built /\ phase = "sealed") =>
        \A s \in Salts \ {salt} :
           UdpCipher_encrypt_packet(self, s, inbuf).buf # buf

C9_Witness ==
    /\ Built /\ phase = "sealed" /\ plain = <<>>

\* the result of the primitive the kind names, called directly
PrimitiveEncrypt(u, s, b) ==
    CASE u.kind \in GcmKinds -> AesGcm_encrypt_packet(u.cipher.c, s, b)
      [] u.kind = CHACHA20 -> ChaCha20Poly1305_encrypt_packet(u.cipher.c, s, b)
      [] u.kind = CHACHA8 -> ChaCha8Poly1305_encrypt_packet(u.cipher.c, s, b)

PrimitiveDecrypt(u, s, b) ==
    CASE u.kind \in GcmKinds -> AesGcm_decrypt_packet(u.cipher.c, s, b)
      [] u.kind = CHACHA20 -> ChaCha20Poly1305_decrypt_packet(u.cipher.c, s, b)
      [] u.kind = CHACHA8 -> ChaCha8Poly1305_decrypt_packet(u.cipher.c, s, b)

\* C10: the stored kind and the stored variant agree, the AES primitive is
\* told the kind, and both packet operations hand salt and buffer to that
\* variant's primitive and return its result.
C10_KindVariantConsistency ==
    Built =>
        /\ (self.cipher.arm = "AesGcm") = (self.kind \in GcmKinds)
        /\ (self.cipher.arm = "ChaCha20Poly1305") = (self.kind = CHACHA20)
        /\ (self.cipher.arm = "ChaCha8Poly1305") = (self.kind = CHACHA8)
        /\ self.cipher.arm = "AesGcm" => self.cipher.c.alg = self.kind
        /\ phase = "sealed" => buf = PrimitiveEncrypt(self, salt, inbuf)
        /\ phase = "opened" =>
              [ret |-> ret, buf |-> buf] \in PrimitiveDecrypt(self, salt, inbuf)

C10_Witness ==
    /\ Built /\ self.kind = CHACHA8 /\ self.cipher.arm = "ChaCha8Poly1305"
    /\ phase = "opened" /\ ret = TRUE

====
